---- MODULE Spec2Model ----
(***************************************************************************)
(* RegExpBuilder (src/src/Builder.ts): a fluent builder of regular         *)
(* expression text.  A JavaScript string is modelled as a sequence of      *)
(* one-character strings, so that escaping, backreference renumbering and  *)
(* the removal of a fragment's last character are computed, not assumed.   *)
(* A nullable string is <<>> (null) or <<s>> (the string s).               *)
(***************************************************************************)
EXTENDS Integers, Sequences, FiniteSets, TLC

VARIABLES
    b,          \* the builder object: a record of the fields of lines 2-16
    lastCall,   \* the public method called last, with its arguments
    threw,      \* TRUE iff the last call raised an exception
    calls,      \* number of public calls made on the builder so far
    limit       \* number of calls the caller makes in all

vars == <<b, lastCall, threw, calls, limit>>

---------------------------------------------------------------------------
(* Bounds of the exploration *)

MaxCalls == 2          \* calls of a run of Spec
MaxAltCalls == 5       \* calls of a run of SpecAlt
MaxAnyOfCalls == 3     \* calls of a run of SpecAnyOf
MaxListLen == 3        \* longest list handed to anyOf
MaxEmbedCalls == 3     \* calls of a run of SpecEmbed
MaxQuantityCalls == 4  \* calls of a run of SpecQuantity
MaxTokenCalls == 4     \* calls of a run of SpecToken
MaxSourceCalls == 7    \* calls of a run of SpecSource
MaxQuantity == 2       \* largest one-digit bound handed to exactly, min, max
MaxNegationCalls == 4  \* calls of a run of SpecNegation
MaxEscapeCalls == 1    \* calls of a run of SpecEscape
MaxStrLen == 2         \* longest text handed to of in SpecEscape
MaxFlagCalls == 5      \* calls of a run of SpecFlags
MaxChainCalls == 8     \* calls of a run of SpecChain
MaxParenCalls == 4     \* calls of a run of SpecParens

---------------------------------------------------------------------------
(* Strings *)

Null == <<>>
Some(s) == <<s>>

DigitChars == <<"0", "1", "2", "3", "4", "5", "6", "7", "8", "9">>

IsDigit(c) == \E i \in 1..10 : DigitChars[i] = c

DigitValue(c) == (CHOOSE i \in 1..10 : DigitChars[i] = c) - 1

RECURSIVE NatToStr(_)
NatToStr(n) ==
    IF n < 10 THEN <<DigitChars[n + 1]>>
    ELSE NatToStr(n \div 10) \o <<DigitChars[(n % 10) + 1]>>

\* `${n}` of a template literal, for an integer n
NumToStr(n) == IF n < 0 THEN <<"-">> \o NatToStr(0 - n) ELSE NatToStr(n)

RECURSIVE parseInt(_)
parseInt(ds) ==
    IF ds = <<>> THEN 0
    ELSE 10 * parseInt(SubSeq(ds, 1, Len(ds) - 1)) + DigitValue(ds[Len(ds)])

RECURSIVE join(_)
join(list) == IF list = <<>> THEN <<>> ELSE Head(list) \o join(Tail(list))

MetaChars == {".", "*", "+", "?", "^", "$", "{", "}", "(", ")", "|", "[", "]", "\\"}

\* mutant: the backslash itself is not in the character class
RECURSIVE sanitizeBug(_)
sanitizeBug(s) ==
    IF s = <<>> THEN <<>>
    ELSE (IF Head(s) \in MetaChars \ {"\\"} THEN <<"\\", Head(s)>> ELSE <<Head(s)>>)
         \o sanitizeBug(Tail(s))

RECURSIVE sanitize(_)
sanitize(s) ==
    IF s = <<>> THEN <<>>
    ELSE (IF Head(s) \in MetaChars THEN <<"\\", Head(s)>> ELSE <<Head(s)>>)
         \o sanitize(Tail(s))

\* length of the run of digits of text that starts at position i
RECURSIVE digitRun(_, _)
digitRun(text, i) ==
    IF i <= Len(text) /\ IsDigit(text[i]) THEN 1 + digitRun(text, i + 1) ELSE 0

\* literal.replace(/\\(\d+)/g, ...) scanning text from position i
RECURSIVE replaceGroupReferences(_, _, _)
replaceGroupReferences(text, i, increment) ==
    IF i > Len(text) THEN <<>>
    ELSE LET n == digitRun(text, i + 1) IN
         IF text[i] = "\\" /\ n > 0
         THEN <<"\\">> \o NumToStr(parseInt(SubSeq(text, i + 1, i + n)) + increment)
              \o replaceGroupReferences(text, i + 1 + n, increment)
         ELSE <<text[i]>> \o replaceGroupReferences(text, i + 1, increment)

\* mutant: the guard is off by one, so a parent with one group renumbers nothing
incrementGroupNumberingBug(literal, increment) ==
    IF increment > 1 THEN replaceGroupReferences(literal, 1, increment) ELSE literal

incrementGroupNumbering(literal, increment) ==
    IF increment > 0 THEN replaceGroupReferences(literal, 1, increment) ELSE literal

---------------------------------------------------------------------------
(* The builder: fields, constructor, flush *)

clear(r) ==
    [r EXCEPT !.min = -1, !.max = -1, !.of = <<>>, !.ofAny = FALSE,
              !.ofGroup = -1, !.from = <<>>, !.notFrom = <<>>, !.like = Null,
              !.either = Null, !.reluctant = FALSE, !.capture = FALSE]

New ==
    [flags |-> <<>>, literal |-> <<>>, groupsUsed |-> 0, min |-> -1, max |-> -1,
     of |-> <<>>, ofAny |-> FALSE, ofGroup |-> -1, from |-> <<>>,
     notFrom |-> <<>>, like |-> Null, either |-> Null, reluctant |-> FALSE,
     capture |-> FALSE, captureName |-> Null]

\* mutant: the branch for a lower bound alone is missing
getQuantityLiteralBug(r) ==
    IF r.min # -1
    THEN <<"{">> \o NumToStr(r.min) \o <<",">> \o NumToStr(r.max) \o <<"}">>
    ELSE <<"{", "0", ",">> \o NumToStr(r.max) \o <<"}">>

getQuantityLiteral(r) ==
    IF r.min # -1
    THEN IF r.max # -1
         THEN <<"{">> \o NumToStr(r.min) \o <<",">> \o NumToStr(r.max) \o <<"}">>
         ELSE <<"{">> \o NumToStr(r.min) \o <<",", "}">>
    ELSE <<"{", "0", ",">> \o NumToStr(r.max) \o <<"}">>

\* mutant: any-character is tested before the literal text, the exclusive set
\* before the inclusive one
getCharacterLiteralBug(r) ==
    IF r.ofAny THEN <<".">>
    ELSE IF r.of # <<>> THEN r.of
    ELSE IF r.ofGroup > 0 THEN <<"\\">> \o NumToStr(r.ofGroup)
    ELSE IF r.notFrom # <<>> THEN <<"[", "^">> \o r.notFrom \o <<"]">>
    ELSE IF r.from # <<>> THEN <<"[">> \o r.from \o <<"]">>
    ELSE IF r.like # Null THEN r.like[1]
    ELSE <<>>

getCharacterLiteral(r) ==
    IF r.of # <<>> THEN r.of
    ELSE IF r.ofAny THEN <<".">>
    ELSE IF r.ofGroup > 0 THEN <<"\\">> \o NumToStr(r.ofGroup)
    ELSE IF r.from # <<>> THEN <<"[">> \o r.from \o <<"]">>
    ELSE IF r.notFrom # <<>> THEN <<"[", "^">> \o r.notFrom \o <<"]">>
    ELSE IF r.like # Null THEN r.like[1]
    ELSE <<>>

\* mutant: group number 0 counts as a character source
hasCharacterSourceBug(r) ==
    \/ r.of # <<>>
    \/ r.ofAny
    \/ r.ofGroup >= 0
    \/ r.from # <<>>
    \/ r.notFrom # <<>>
    \/ r.like # Null

\* the condition of flushState: some character source is set
hasCharacterSource(r) ==
    \/ r.of # <<>>
    \/ r.ofAny
    \/ r.ofGroup > 0
    \/ r.from # <<>>
    \/ r.notFrom # <<>>
    \/ r.like # Null

\* a JavaScript string or null used as a condition
truthy(s) == s # Null /\ s[1] # <<>>

captureLiteral(r) ==
    IF r.capture
    THEN IF truthy(r.captureName) THEN <<"?", "P", "<">> \o r.captureName[1] \o <<">">>
         ELSE <<>>
    ELSE <<"?", ":">>

reluctantLiteral(r) == IF r.reluctant THEN <<"?">> ELSE <<>>

\* the fragment pushed by flushState
fragment(r) ==
    <<"(">> \o captureLiteral(r) \o <<"(", "?", ":">> \o getCharacterLiteral(r)
    \o <<")">> \o getQuantityLiteral(r) \o reluctantLiteral(r) \o <<")">>

push(r, frag) == [r EXCEPT !.literal = Append(@, frag)]

flushState(r) ==
    IF hasCharacterSource(r) THEN clear(push(r, fragment(r))) ELSE r

getLiteral(r) == join(flushState(r).literal)

\* the text returned and the builder left by combineGroupNumberingAndGetLiteralral
combineGroupNumberingAndGetLiteralral(this, r) ==
    [literal |-> incrementGroupNumbering(getLiteral(r), this.groupsUsed),
     this |-> [this EXCEPT !.groupsUsed = @ + r.groupsUsed]]

---------------------------------------------------------------------------
(* Flags and anchors *)

contains(s, c) == \E i \in 1..Len(s) : s[i] = c

\* mutant: the flag is appended without looking for it first
addFlagBug(r, flag) == [r EXCEPT !.flags = @ \o <<flag>>]

addFlag(r, flag) ==
    IF ~contains(r.flags, flag) THEN [r EXCEPT !.flags = @ \o <<flag>>] ELSE r

ignoreCase(r) == addFlag(r, "i")

multiLine(r) == addFlag(r, "m")

globalMatch(r) == addFlag(r, "g")

startOfInput(r) == push(r, <<"(", "?", ":", "^", ")">>)

startOfLine(r) == startOfInput(multiLine(r))

endOfInput(r) == push(flushState(r), <<"(", "?", ":", "$", ")">>)

endOfLine(r) == endOfInput(multiLine(r))

---------------------------------------------------------------------------
(* Quantities, character sources, modifiers *)

exactly(r, n) == [flushState(r) EXCEPT !.min = n, !.max = n]

min(r, n) == [flushState(r) EXCEPT !.min = n]

max(r, n) == [flushState(r) EXCEPT !.max = n]

of(r, s) == [r EXCEPT !.of = sanitize(s)]

ofAny(r) == [r EXCEPT !.ofAny = TRUE]

ofGroup(r, n) == [r EXCEPT !.ofGroup = n]

from(r, list) == [r EXCEPT !.from = sanitize(join(list))]

notFrom(r, list) == [r EXCEPT !.notFrom = sanitize(join(list))]

like(this, r) ==
    LET c == combineGroupNumberingAndGetLiteralral(this, r)
    IN  [c.this EXCEPT !.like = Some(c.literal)]

reluctantly(r) == [r EXCEPT !.reluctant = TRUE]

asGroup(r, name) ==
    [r EXCEPT !.capture = TRUE, !.captureName = name, !.groupsUsed = @ + 1]

ahead(this, r) ==
    LET c == combineGroupNumberingAndGetLiteralral(flushState(this), r)
    IN  push(c.this, <<"(", "?", "=">> \o c.literal \o <<")">>)

notAhead(this, r) ==
    LET c == combineGroupNumberingAndGetLiteralral(flushState(this), r)
    IN  push(c.this, <<"(", "?", "!">> \o c.literal \o <<")">>)

append(this, r) ==
    LET c == combineGroupNumberingAndGetLiteralral(exactly(this, 1), r)
    IN  [c.this EXCEPT !.like = Some(c.literal)]

optional(this, r) ==
    LET c == combineGroupNumberingAndGetLiteralral(max(this, 1), r)
    IN  [c.this EXCEPT !.like = Some(c.literal)]

---------------------------------------------------------------------------
(* Alternation and negation.  An argument typed string | RegExpBuilder is   *)
(* a record: type "string" with the text in s, or type "builder" with the   *)
(* builder in r.                                                            *)

StringArg(s) == [type |-> "string", s |-> s, r |-> New]
BuilderArg(r) == [type |-> "builder", s |-> <<>>, r |-> r]

\* the builder the methods make of an argument: getNew().exactly(1).of(s), or r
asBuilder(a) == IF a.type = "string" THEN of(exactly(New, 1), a.s) ELSE a.r

\* mutant: the pending token is not flushed first
setEitherBug(this, r) ==
    LET c == combineGroupNumberingAndGetLiteralral(this, r)
    IN  [c.this EXCEPT !.either = Some(c.literal)]

setEither(this, r) ==
    LET c == combineGroupNumberingAndGetLiteralral(flushState(this), r)
    IN  [c.this EXCEPT !.either = Some(c.literal)]

eitherFind(this, a) == setEither(this, asBuilder(a))

\* line 228: the last element of an empty _literal is undefined, and
\* undefined.substring raises a TypeError
setOrThrows(this) == this.either = Null /\ Len(this.literal) = 0

\* mutant: the substring ends one character too early
dropLastBug(s) == SubSeq(s, 1, Len(s) - 2)

dropLast(s) == SubSeq(s, 1, Len(s) - 1)

\* mutant: the last fragment keeps its closing parenthesis
setOrBug(this, r) ==
    LET c == combineGroupNumberingAndGetLiteralral(this, r)
        either == this.either
        n == Len(this.literal)
    IN  IF either = Null
        THEN IF n = 0
             THEN c.this
             ELSE clear(push(c.this, <<"|", "(", "?", ":">> \o c.literal \o <<")", ")">>))
        ELSE clear(push(c.this, <<"(", "?", ":", "(", "?", ":">> \o either[1]
                        \o <<")", "|", "(", "?", ":">> \o c.literal \o <<")", ")">>))

setOr(this, r) ==
    LET c == combineGroupNumberingAndGetLiteralral(this, r)
        either == this.either
        n == Len(this.literal)
    IN  IF either = Null
        THEN IF n = 0
             THEN c.this    \* the TypeError leaves only line 224's effect
             ELSE clear(push([c.this EXCEPT !.literal[n] = dropLast(@)],
                             <<"|", "(", "?", ":">> \o c.literal \o <<")", ")">>))
        ELSE clear(push(c.this, <<"(", "?", ":", "(", "?", ":">> \o either[1]
                        \o <<")", "|", "(", "?", ":">> \o c.literal \o <<")", ")">>))

orFind(this, a) == setOr(this, asBuilder(a))

\* r.forEach(token => this.orFind(token)): an exception ends the loop
RECURSIVE orFindEach(_, _)
orFindEach(this, list) ==
    IF list = <<>> THEN this
    ELSE IF setOrThrows(this) THEN orFind(this, Head(list))
    ELSE orFindEach(orFind(this, Head(list)), Tail(list))

RECURSIVE orFindEachThrows(_, _)
orFindEachThrows(this, list) ==
    IF list = <<>> THEN FALSE
    ELSE setOrThrows(this) \/ orFindEachThrows(orFind(this, Head(list)), Tail(list))

\* mutant: the last element, not the first, seeds eitherFind
anyOfBug(this, list) ==
    IF Len(list) < 1 THEN this
    ELSE orFindEach(eitherFind(this, list[Len(list)]), dropLast(list))

anyOf(this, list) ==
    IF Len(list) < 1 THEN this
    ELSE orFindEach(eitherFind(this, Head(list)), Tail(list))

anyOfThrows(this, list) ==
    Len(list) >= 1 /\ orFindEachThrows(eitherFind(this, Head(list)), Tail(list))

neither(this, a) == notAhead(this, asBuilder(a))

\* mutant: the pending zero-or-more any-character token is not reset
norBug(this, a) == ofAny(min(neither(this, a), 0))

nor(this, a) ==
    LET reset == IF this.min = 0 /\ this.ofAny
                 THEN [this EXCEPT !.min = -1, !.ofAny = FALSE]
                 ELSE this
    IN  ofAny(min(neither(reset, a), 0))

---------------------------------------------------------------------------
(* Shorthands *)

then(r, s) == of(exactly(r, 1), s)

find(r, s) == then(r, s)

some(r, list) == from(min(r, 1), list)

maybeSome(r, list) == from(min(r, 0), list)

maybe(r, s) == of(max(r, 1), s)

anything(r) == ofAny(min(r, 0))

\* mutant: a two-character string is still rendered as an exclusive set
anythingButBug(r, s) ==
    IF Len(s) <= 2 THEN notFrom(min(r, 1), <<s>>)
    ELSE ofAny(min(notAhead(r, of(exactly(New, 1), s)), 0))

anythingBut(r, s) ==
    IF Len(s) = 1 THEN notFrom(min(r, 1), <<s>>)
    ELSE ofAny(min(notAhead(r, of(exactly(New, 1), s)), 0))

something(r) == ofAny(min(r, 1))

any(r) == ofAny(exactly(r, 1))

lineBreak(r) ==
    push(flushState(r),
         <<"(", "?", ":", "\\", "r", "\\", "n", "|", "\\", "r", "|", "\\", "n", ")">>)

lineBreaks(r) == like(r, lineBreak(New))

whitespace(r) ==
    IF r.min = -1 /\ r.max = -1
    THEN push(flushState(r), <<"(", "?", ":", "\\", "s", ")">>)
    ELSE [r EXCEPT !.like = Some(<<"\\", "s">>)]

notWhitespace(r) ==
    IF r.min = -1 /\ r.max = -1
    THEN push(flushState(r), <<"(", "?", ":", "\\", "S", ")">>)
    ELSE [r EXCEPT !.like = Some(<<"\\", "S">>)]

tab(r) == push(flushState(r), <<"(", "?", ":", "\\", "t", ")">>)

tabs(r) == like(r, tab(New))

digit(r) == push(flushState(r), <<"(", "?", ":", "\\", "d", ")">>)

notDigit(r) == push(flushState(r), <<"(", "?", ":", "\\", "D", ")">>)

digits(r) == like(r, digit(New))

notDigits(r) == like(r, notDigit(New))

letter(r) == [exactly(r, 1) EXCEPT !.from = <<"A", "-", "Z", "a", "-", "z">>]

notLetter(r) == [exactly(r, 1) EXCEPT !.notFrom = <<"A", "-", "Z", "a", "-", "z">>]

\* mutant: the set is the lower-case letters only
lettersBug(r) == [r EXCEPT !.from = <<"a", "-", "z">>]

letters(r) == [r EXCEPT !.from = <<"A", "-", "Z", "a", "-", "z">>]

notLetters(r) == [r EXCEPT !.notFrom = <<"A", "-", "Z", "a", "-", "z">>]

lowerCaseLetter(r) == [exactly(r, 1) EXCEPT !.from = <<"a", "-", "z">>]

lowerCaseLetters(r) == [r EXCEPT !.from = <<"a", "-", "z">>]

upperCaseLetter(r) == [exactly(r, 1) EXCEPT !.from = <<"A", "-", "Z">>]

upperCaseLetters(r) == [r EXCEPT !.from = <<"A", "-", "Z">>]

---------------------------------------------------------------------------
(* Arguments of the calls *)

\* one-digit bounds and a two-digit one
Quantities == (0..MaxQuantity) \cup {12}

StrA == <<"a">>
StrB == <<"b">>
StrDot == <<".">>
StrXY == <<"x", "y">>
StrBackslashOne == <<"\\", "1">>
StrDash == <<"-">>
StrOpen == <<"(">>
StrClose == <<")">>

ListAB == <<StrA, StrB>>
ListBracket == << <<"]">> >>

NameN == Some(<<"n">>)
NameEmpty == Some(<<>>)

\* getNew().exactly(1).of("a"): no group
SubLiteral == of(exactly(New, 1), StrA)

\* getNew().exactly(1).of("a").asGroup().exactly(1).ofGroup(1): one group and \1
SubGroup == ofGroup(exactly(asGroup(of(exactly(New, 1), StrA), Null), 1), 1)

\* getNew().find("a").asGroup().find("b").asGroup().exactly(1).ofGroup(2): two groups and \2
SubTwoGroups ==
    ofGroup(exactly(asGroup(find(asGroup(find(New, StrA), Null), StrB), Null), 1), 2)

\* getNew().min(1).ofGroup(9): a backreference whose shifted number gains a digit
SubNine == ofGroup(min(New, 1), 9)

\* getNew().exactly(1).of("\\1"): the two characters backslash and 1, escaped
SubEscaped == of(exactly(New, 1), StrBackslashOne)

---------------------------------------------------------------------------
(* One action per public method *)

Step(op, args, next, raised) ==
    /\ calls < limit
    /\ b' = next
    /\ lastCall' = [op |-> op, args |-> args]
    /\ threw' = raised
    /\ calls' = calls + 1
    /\ UNCHANGED limit

CallIgnoreCase == Step("ignoreCase", <<>>, ignoreCase(b), FALSE)
CallMultiLine == Step("multiLine", <<>>, multiLine(b), FALSE)
CallGlobalMatch == Step("globalMatch", <<>>, globalMatch(b), FALSE)
CallStartOfInput == Step("startOfInput", <<>>, startOfInput(b), FALSE)
CallStartOfLine == Step("startOfLine", <<>>, startOfLine(b), FALSE)
CallEndOfInput == Step("endOfInput", <<>>, endOfInput(b), FALSE)
CallEndOfLine == Step("endOfLine", <<>>, endOfLine(b), FALSE)
CallEitherFind(a) == Step("eitherFind", <<a>>, eitherFind(b, a), FALSE)
CallOrFind(a) == Step("orFind", <<a>>, orFind(b, a), setOrThrows(b))
CallAnyOf(list) == Step("anyOf", <<list>>, anyOf(b, list), anyOfThrows(b, list))
CallNeither(a) == Step("neither", <<a>>, neither(b, a), FALSE)
CallNor(a) == Step("nor", <<a>>, nor(b, a), FALSE)
CallExactly(n) == Step("exactly", <<n>>, exactly(b, n), FALSE)
CallMin(n) == Step("min", <<n>>, min(b, n), FALSE)
CallMax(n) == Step("max", <<n>>, max(b, n), FALSE)
CallOf(s) == Step("of", <<s>>, of(b, s), FALSE)
CallOfAny == Step("ofAny", <<>>, ofAny(b), FALSE)
CallOfGroup(n) == Step("ofGroup", <<n>>, ofGroup(b, n), FALSE)
CallFrom(list) == Step("from", <<list>>, from(b, list), FALSE)
CallNotFrom(list) == Step("notFrom", <<list>>, notFrom(b, list), FALSE)
CallLike(r) == Step("like", <<r>>, like(b, r), FALSE)
CallReluctantly == Step("reluctantly", <<>>, reluctantly(b), FALSE)
CallAhead(r) == Step("ahead", <<r>>, ahead(b, r), FALSE)
CallNotAhead(r) == Step("notAhead", <<r>>, notAhead(b, r), FALSE)
CallAsGroup(name) == Step("asGroup", <<name>>, asGroup(b, name), FALSE)
CallThen(s) == Step("then", <<s>>, then(b, s), FALSE)
CallFind(s) == Step("find", <<s>>, find(b, s), FALSE)
CallSome(list) == Step("some", <<list>>, some(b, list), FALSE)
CallMaybeSome(list) == Step("maybeSome", <<list>>, maybeSome(b, list), FALSE)
CallMaybe(s) == Step("maybe", <<s>>, maybe(b, s), FALSE)
CallAnything == Step("anything", <<>>, anything(b), FALSE)
CallAnythingBut(s) == Step("anythingBut", <<s>>, anythingBut(b, s), FALSE)
CallSomething == Step("something", <<>>, something(b), FALSE)
CallAny == Step("any", <<>>, any(b), FALSE)
CallLineBreak == Step("lineBreak", <<>>, lineBreak(b), FALSE)
CallLineBreaks == Step("lineBreaks", <<>>, lineBreaks(b), FALSE)
CallWhitespace == Step("whitespace", <<>>, whitespace(b), FALSE)
CallNotWhitespace == Step("notWhitespace", <<>>, notWhitespace(b), FALSE)
CallTab == Step("tab", <<>>, tab(b), FALSE)
CallTabs == Step("tabs", <<>>, tabs(b), FALSE)
CallDigit == Step("digit", <<>>, digit(b), FALSE)
CallNotDigit == Step("notDigit", <<>>, notDigit(b), FALSE)
CallDigits == Step("digits", <<>>, digits(b), FALSE)
CallNotDigits == Step("notDigits", <<>>, notDigits(b), FALSE)
CallLetter == Step("letter", <<>>, letter(b), FALSE)
CallNotLetter == Step("notLetter", <<>>, notLetter(b), FALSE)
CallLetters == Step("letters", <<>>, letters(b), FALSE)
CallNotLetters == Step("notLetters", <<>>, notLetters(b), FALSE)
CallLowerCaseLetter == Step("lowerCaseLetter", <<>>, lowerCaseLetter(b), FALSE)
CallLowerCaseLetters == Step("lowerCaseLetters", <<>>, lowerCaseLetters(b), FALSE)
CallUpperCaseLetter == Step("upperCaseLetter", <<>>, upperCaseLetter(b), FALSE)
CallUpperCaseLetters == Step("upperCaseLetters", <<>>, upperCaseLetters(b), FALSE)
CallAppend(r) == Step("append", <<r>>, append(b, r), FALSE)
CallOptional(r) == Step("optional", <<r>>, optional(b, r), FALSE)

\* getLiteral() flushes and returns join(b'.literal)
CallGetLiteral == Step("getLiteral", <<>>, flushState(b), FALSE)

\* getRegExp() flushes and hands the text to the platform's RegExp constructor,
\* which either compiles it or raises a SyntaxError
CallGetRegExp == \E raised \in BOOLEAN : Step("getRegExp", <<>>, flushState(b), raised)

---------------------------------------------------------------------------
(* Specifications *)

Start(n) ==
    /\ b = New
    /\ lastCall = [op |-> "constructor", args |-> <<>>]
    /\ threw = FALSE
    /\ calls = 0
    /\ limit = n

Init == Start(MaxCalls)

\* every public method, on short call sequences
Strings == {StrA, StrXY}
Lists == {ListAB}
Builders == {SubLiteral, SubGroup}
Args == {StringArg(StrA), BuilderArg(SubGroup)}
ArgLists == {<<>>, <<StringArg(StrA)>>, <<StringArg(StrA), BuilderArg(SubGroup)>>}

Next ==
    \/ \/ CallIgnoreCase \/ CallMultiLine \/ CallGlobalMatch
       \/ CallStartOfInput \/ CallStartOfLine \/ CallEndOfInput \/ CallEndOfLine
       \/ \E a \in Args : CallEitherFind(a)
       \/ \E a \in Args : CallOrFind(a)
       \/ \E list \in ArgLists : CallAnyOf(list)
       \/ \E a \in Args : CallNeither(a)
       \/ \E a \in Args : CallNor(a)
       \/ \E n \in Quantities : CallExactly(n)
       \/ \E n \in Quantities : CallMin(n)
       \/ \E n \in Quantities : CallMax(n)
       \/ \E s \in Strings : CallOf(s)
       \/ CallOfAny
       \/ \E n \in 0..1 : CallOfGroup(n)
       \/ \E list \in Lists : CallFrom(list)
       \/ \E list \in Lists : CallNotFrom(list)
       \/ \E r \in Builders : CallLike(r)
       \/ CallReluctantly
       \/ \E r \in Builders : CallAhead(r)
       \/ \E r \in Builders : CallNotAhead(r)
       \/ \E name \in {Null, NameN} : CallAsGroup(name)
       \/ \E s \in Strings : CallThen(s)
       \/ \E s \in Strings : CallFind(s)
       \/ \E list \in Lists : CallSome(list)
       \/ \E list \in Lists : CallMaybeSome(list)
       \/ \E s \in Strings : CallMaybe(s)
       \/ CallAnything
       \/ \E s \in Strings : CallAnythingBut(s)
       \/ CallSomething \/ CallAny
       \/ CallLineBreak \/ CallLineBreaks
       \/ CallWhitespace \/ CallNotWhitespace
       \/ CallTab \/ CallTabs
       \/ CallDigit \/ CallNotDigit \/ CallDigits \/ CallNotDigits
       \/ CallLetter \/ CallNotLetter \/ CallLetters \/ CallNotLetters
       \/ CallLowerCaseLetter \/ CallLowerCaseLetters
       \/ CallUpperCaseLetter \/ CallUpperCaseLetters
       \/ \E r \in Builders : CallAppend(r)
       \/ \E r \in Builders : CallOptional(r)
       \/ CallGetLiteral \/ CallGetRegExp

Spec == Init /\ [][Next]_vars

\* alternation: eitherFind and orFind after committed and pending tokens
AltArgs == {StringArg(StrA), StringArg(StrDot), BuilderArg(SubGroup)}

InitAlt == Start(MaxAltCalls)

NextAlt ==
    \/ CallStartOfInput
    \/ CallThen(StrA)
    \/ CallAsGroup(Null)
    \/ \E a \in AltArgs : CallEitherFind(a)
    \/ \E a \in AltArgs : CallOrFind(a)
    \/ CallGetLiteral

SpecAlt == InitAlt /\ [][NextAlt]_vars

\* anyOf on lists of up to MaxListLen alternatives
AnyOfArgs == {StringArg(StrA), BuilderArg(SubGroup)}

AnyOfLists == UNION {[1..k -> AnyOfArgs] : k \in 0..MaxListLen}

InitAnyOf == Start(MaxAnyOfCalls)

NextAnyOf ==
    \/ CallStartOfInput
    \/ CallThen(StrB)
    \/ CallAsGroup(Null)
    \/ \E a \in AnyOfArgs : CallEitherFind(a)
    \/ \E list \in AnyOfLists : CallAnyOf(list)
    \/ CallGetLiteral

SpecAnyOf == InitAnyOf /\ [][NextAnyOf]_vars

\* embedding of sub-builders with and without groups
EmbedBuilders == {SubGroup, SubTwoGroups, SubNine, SubEscaped}

InitEmbed == Start(MaxEmbedCalls)

NextEmbed ==
    \/ CallAsGroup(Null)
    \/ CallThen(StrA)
    \/ \E r \in EmbedBuilders : CallLike(r)
    \/ \E r \in EmbedBuilders : CallAppend(r)
    \/ \E r \in EmbedBuilders : CallOptional(r)
    \/ \E r \in EmbedBuilders : CallAhead(r)
    \/ \E r \in EmbedBuilders : CallNotAhead(r)
    \/ \E r \in EmbedBuilders : CallEitherFind(BuilderArg(r))
    \/ \E r \in EmbedBuilders : CallOrFind(BuilderArg(r))
    \/ CallGetLiteral

SpecEmbed == InitEmbed /\ [][NextEmbed]_vars

\* quantity bounds of a token
InitQuantity == Start(MaxQuantityCalls)

NextQuantity ==
    \/ \E n \in Quantities : CallExactly(n)
    \/ \E n \in Quantities : CallMin(n)
    \/ \E n \in Quantities : CallMax(n)
    \/ CallOf(StrA)
    \/ CallOfAny
    \/ CallGetLiteral

SpecQuantity == InitQuantity /\ [][NextQuantity]_vars

\* one token: its source, quantity, reluctance and capture
InitToken == Start(MaxTokenCalls)

NextToken ==
    \/ CallExactly(1)
    \/ CallMin(0)
    \/ \E s \in {StrA, <<>>} : CallOf(s)
    \/ CallOfAny
    \/ \E n \in 0..1 : CallOfGroup(n)
    \/ CallFrom(ListAB)
    \/ CallNotFrom(ListBracket)
    \/ CallLike(SubLiteral)
    \/ CallReluctantly
    \/ \E name \in {Null, NameN, NameEmpty} : CallAsGroup(name)
    \/ CallGetLiteral
    \/ CallEndOfInput

SpecToken == InitToken /\ [][NextToken]_vars

\* several character sources on one token
InitSource == Start(MaxSourceCalls)

NextSource ==
    \/ CallOf(StrDot)
    \/ CallOfAny
    \/ CallOfGroup(1)
    \/ CallFrom(ListAB)
    \/ CallNotFrom(ListBracket)
    \/ CallLike(SubGroup)
    \/ CallGetLiteral

SpecSource == InitSource /\ [][NextSource]_vars

\* negation: neither, nor and anythingBut
NegationStrings == {StrA, StrDot, StrXY}

NegationArgs == {StringArg(StrA), StringArg(StrXY), BuilderArg(SubGroup)}

NextNegation ==
    \/ CallThen(StrA)
    \/ CallAsGroup(Null)
    \/ \E a \in NegationArgs : CallNeither(a)
    \/ \E a \in NegationArgs : CallNor(a)
    \/ \E s \in NegationStrings : CallAnythingBut(s)
    \/ CallGetLiteral

SpecNegation == Start(MaxNegationCalls) /\ [][NextNegation]_vars

\* escaping: every text over the metacharacters and one plain character
EscapeAlphabet == MetaChars \cup {"a"}

EscapeStrings == UNION {[1..k -> EscapeAlphabet] : k \in 0..MaxStrLen}

EscapeLists ==
    { <<StrA, StrB>>, << <<"]">> >>, << <<"^">>, <<"-">>, <<"\\">> >>,
      << <<"a", ".">>, <<>>, <<"(", ")">> >> }

\* of is the first call of a run, the sets may follow it
NextEscape ==
    \/ calls = 0 /\ \E s \in EscapeStrings : CallOf(s)
    \/ \E list \in EscapeLists : CallFrom(list)
    \/ \E list \in EscapeLists : CallNotFrom(list)

SpecEscape == Start(MaxEscapeCalls) /\ [][NextEscape]_vars

\* flags: the three flag setters and the line anchors among other calls
NextFlags ==
    \/ CallIgnoreCase
    \/ CallMultiLine
    \/ CallGlobalMatch
    \/ CallStartOfLine
    \/ CallEndOfLine
    \/ CallStartOfInput
    \/ CallThen(StrA)

SpecFlags == Start(MaxFlagCalls) /\ [][NextFlags]_vars

\* a chain of eight calls shaped as the usage example: an anchor, a counted
\* class, a literal, a class with a lower and an upper bound, an anchor
ChainCounts == {2, 3, 5}

NextChain ==
    \/ calls = 0 /\ CallStartOfInput
    \/ calls = 1 /\ \E n \in ChainCounts : CallExactly(n)
    \/ calls \in {2, 6} /\ CallDigits
    \/ calls \in {2, 6} /\ CallLetters
    \/ calls = 3 /\ \E s \in {StrDash, StrA} : CallThen(s)
    \/ calls = 4 /\ \E n \in ChainCounts : CallMin(n)
    \/ calls = 5 /\ \E n \in ChainCounts : CallMax(n)
    \/ calls = 7 /\ CallEndOfInput
    \/ calls = 7 /\ CallGetLiteral

SpecChain == Start(MaxChainCalls) /\ [][NextChain]_vars

\* grouping: every call that writes a parenthesis, on texts that hold some
NextParens ==
    \/ CallStartOfInput
    \/ \E s \in {StrA, StrOpen} : CallThen(s)
    \/ CallNotFrom(<<StrClose>>)
    \/ \E name \in {Null, NameN} : CallAsGroup(name)
    \/ CallReluctantly
    \/ \E a \in {StringArg(StrClose), BuilderArg(SubGroup)} : CallEitherFind(a)
    \/ \E a \in {StringArg(StrClose), BuilderArg(SubGroup)} : CallOrFind(a)
    \/ CallNor(StringArg(StrOpen))
    \/ CallAhead(SubGroup)
    \/ CallGetLiteral

SpecParens == Start(MaxParenCalls) /\ [][NextParens]_vars

---------------------------------------------------------------------------
(* Properties *)

AnchorOps == {"startOfInput", "startOfLine", "endOfInput", "endOfLine"}

AnchorFragment(op) ==
    IF op \in {"startOfInput", "startOfLine"}
    THEN <<"(", "?", ":", "^", ")">>
    ELSE <<"(", "?", ":", "$", ")">>

\* C1: when a token with a character source is pending, each of the four
\* anchor calls commits that token's fragment first and appends the anchor
\* fragment after it; the line-scoped anchors leave the multi-line flag set.
C1_AnchorsCommitPendingFirst ==
    [][(lastCall'.op \in AnchorOps /\ hasCharacterSource(b)) =>
        LET n == Len(b.literal) IN
        /\ Len(b'.literal) = n + 2
        /\ SubSeq(b'.literal, 1, n) = b.literal
        /\ b'.literal[n + 1] = fragment(b)
        /\ b'.literal[n + 2] = AnchorFragment(lastCall'.op)
        /\ (lastCall'.op \in {"startOfLine", "endOfLine"} => contains(b'.flags, "m"))
      ]_vars

\* C3: no construction call raises; only getRegExp can.
C3_OnlyGetRegExpRaises == threw => lastCall.op = "getRegExp"

---------------------------------------------------------------------------
(* Alternation *)

\* the text an alternative a contributes to a parent whose group counter is j
Rendered(a, j) == incrementGroupNumbering(getLiteral(asBuilder(a)), j)

\* the committed sequence after a flush of r's pending token
FlushedLiteral(r) ==
    IF hasCharacterSource(r) THEN Append(r.literal, fragment(r)) ELSE r.literal

OrBranch(text) == <<"|", "(", "?", ":">> \o text \o <<")", ")">>

EitherOrGroup(first, second) ==
    <<"(", "?", ":", "(", "?", ":">> \o first \o <<")", "|", "(", "?", ":">>
    \o second \o <<")", ")">>

\* orFind with no recorded first alternative, nothing pending, a committed fragment
OrFindOnCommitted ==
    /\ lastCall'.op = "orFind"
    /\ b.either = Null
    /\ ~hasCharacterSource(b)
    /\ Len(b.literal) >= 1

\* C2 as stated: the committed sequence keeps its length, and its last
\* fragment F becomes F without its final ")" followed by "|(?:B))".
C2_OrFindKeepsFragmentCount ==
    [][OrFindOnCommitted =>
        LET n == Len(b.literal)
            B == Rendered(lastCall'.args[1], b.groupsUsed)
        IN  /\ Len(b'.literal) = n
            /\ b'.literal[n] = dropLast(b.literal[n]) \o OrBranch(B)
      ]_vars

\* C2 amended: the last fragment F, which ends with ")", loses that
\* character in place and "|(?:B))" is appended as one further fragment, so
\* the sequence grows by one per call while the concatenated text becomes the
\* text before without its final ")" followed by "|(?:B))": a flat
\* alternation that gains one branch and no wrapper group per call.
C2_OrFindSplitsBranchIntoNewFragment ==
    [][OrFindOnCommitted =>
        LET n == Len(b.literal)
            F == b.literal[n]
            B == Rendered(lastCall'.args[1], b.groupsUsed)
        IN  /\ ~threw'
            /\ F[Len(F)] = ")"
            /\ Len(b'.literal) = n + 1
            /\ SubSeq(b'.literal, 1, n - 1) = SubSeq(b.literal, 1, n - 1)
            /\ b'.literal[n] = dropLast(F)
            /\ b'.literal[n + 1] = OrBranch(B)
            /\ join(b'.literal) = dropLast(join(b.literal)) \o OrBranch(B)
      ]_vars

\* startOfInput().orFind("a").orFind("."): two branches grown onto (?:^)
C2_Witness ==
    /\ lastCall.op = "orFind"
    /\ ~threw
    /\ b.literal = << <<"(", "?", ":", "^">>,
                      <<"|", "(", "?", ":">> \o Rendered(StringArg(StrA), 0) \o <<")">>,
                      OrBranch(Rendered(StringArg(StrDot), 0)) >>

\* C4: eitherFind and orFind, when they complete, commit a pending token
\* that has a character source before they process the alternation; and no
\* call other than nor leaves such a token neither pending nor committed.
C4_AlternationCommitsPending ==
    [][(hasCharacterSource(b) /\ ~threw') =>
        LET n == Len(b.literal)
            committed == Len(b'.literal) > n /\ b'.literal[n + 1] = fragment(b)
        IN  /\ lastCall'.op \in {"eitherFind", "orFind"} => committed
            /\ (lastCall'.op # "nor" /\ ~hasCharacterSource(b')) => committed
      ]_vars

\* C9: eitherFind(A) flushes, records A's rendered text as the first
\* alternative and changes the committed sequence by that flush only; orFind(B)
\* while an alternative A is recorded appends the one fragment
\* (?:(?:A)|(?:B)) and leaves no alternative recorded.
C9_EitherThenOr ==
    [][/\ lastCall'.op = "eitherFind" =>
            /\ b'.literal = FlushedLiteral(b)
            /\ b'.either = Some(Rendered(lastCall'.args[1], b.groupsUsed))
            /\ ~threw'
       /\ (lastCall'.op = "orFind" /\ b.either # Null) =>
            /\ b'.literal = Append(b.literal,
                   EitherOrGroup(b.either[1], Rendered(lastCall'.args[1], b.groupsUsed)))
            /\ b'.either = Null
            /\ ~threw'
      ]_vars

\* then("a").eitherFind("a").orFind("."): the pending token, then the group
C9_Witness ==
    /\ lastCall.op = "orFind"
    /\ b.either = Null
    /\ b.literal = << fragment(then(New, StrA)),
                      EitherOrGroup(Rendered(StringArg(StrA), 0),
                                    Rendered(StringArg(StrDot), 0)) >>

---------------------------------------------------------------------------
(* Embedding *)

\* the numbers of the backreferences of a pattern text, left to right, read
\* as a regular expression reads it: a backslash takes the next character
\* with it, and it is a backreference when digits follow it
RECURSIVE BackRefsFrom(_, _)
BackRefsFrom(text, i) ==
    IF i > Len(text) THEN <<>>
    ELSE IF text[i] # "\\" THEN BackRefsFrom(text, i + 1)
    ELSE LET n == digitRun(text, i + 1) IN
         IF n > 0
         THEN <<parseInt(SubSeq(text, i + 1, i + n))>> \o BackRefsFrom(text, i + 1 + n)
         ELSE BackRefsFrom(text, i + 2)

BackRefs(text) == BackRefsFrom(text, 1)

Raised(numbers, j) == [i \in 1..Len(numbers) |-> numbers[i] + j]

EmbedOps == {"like", "append", "optional", "ahead", "notAhead", "eitherFind", "orFind"}

\* the sub-builder handed to an embedding call
EmbeddedBuilder(call) ==
    IF call.op \in {"eitherFind", "orFind"} THEN asBuilder(call.args[1]) ELSE call.args[1]

Last(seq) == seq[Len(seq)]

\* where the embedding call op, made on builder pre, left the embedded text in post
EmbeddedText(op, pre, post) ==
    IF op \in {"like", "append", "optional"} THEN post.like[1]
    ELSE IF op = "eitherFind" THEN post.either[1]
    ELSE IF op \in {"ahead", "notAhead"}
    THEN SubSeq(Last(post.literal), 4, Len(Last(post.literal)) - 1)
    ELSE IF pre.either = Null
    THEN SubSeq(Last(post.literal), 5, Len(Last(post.literal)) - 2)
    ELSE SubSeq(Last(post.literal), 12 + Len(pre.either[1]), Len(Last(post.literal)) - 2)

\* C5: an embedding call on a parent whose group counter is j, given a
\* sub-builder whose counter is k and whose text is T, embeds T with every
\* backreference number raised by j, embeds T itself when j = 0, and leaves
\* the parent's counter at j + k (so a following embedding is shifted by j + k).
C5_EmbeddingShiftsBackReferences ==
    [][(lastCall'.op \in EmbedOps /\ ~threw') =>
        \A r \in {EmbeddedBuilder(lastCall')} :
        \A T \in {getLiteral(r)} :
        \A E \in {EmbeddedText(lastCall'.op, b, b')} :
            /\ BackRefs(E) = Raised(BackRefs(T), b.groupsUsed)
            /\ b.groupsUsed = 0 => E = T
            /\ b'.groupsUsed = b.groupsUsed + r.groupsUsed
      ]_vars

\* like(SubGroup) and then ahead(SubTwoGroups): \2 of the second sub-builder
\* is embedded as \3 and the counter is 1 + 2
C5_Witness ==
    /\ lastCall.op = "ahead"
    /\ lastCall.args[1] = SubTwoGroups
    /\ b.groupsUsed = 3
    /\ Len(b.literal) = 2
    /\ BackRefs(b.literal[1]) = <<1>>
    /\ BackRefs(b.literal[2]) = <<3>>

---------------------------------------------------------------------------
(* Quantity *)

QuantityOps == {"exactly", "min", "max"}

\* the text between the ")" that closes the character literal of the token
\* pending in pre and the ")" that closes the fragment frag committed for it
QuantityPart(pre, frag) ==
    SubSeq(frag, 1 + Len(captureLiteral(pre)) + 3 + Len(getCharacterLiteral(pre)) + 2,
           Len(frag) - 1 - Len(reluctantLiteral(pre)))

Braces(low, high) == <<"{">> \o low \o <<",">> \o high \o <<"}">>

\* C6: exactly(n) leaves the bounds (n, n); min(m) and max(n) set their own
\* bound and keep the other one when no token is pending; a character source
\* leaves both; and a token committed with bounds (m, n) has the suffix {m,n},
\* with (m, unset) {m,}, with (unset, n) {0,n} and with neither {0,-1}.
C6_QuantitySuffix ==
    [][LET op == lastCall'.op
           n == Len(b.literal)
           kept == ~hasCharacterSource(b)
       IN  /\ op = "exactly" => b'.min = lastCall'.args[1] /\ b'.max = lastCall'.args[1]
           /\ op = "min" => /\ b'.min = lastCall'.args[1]
                            /\ b'.max = (IF kept THEN b.max ELSE -1)
           /\ op = "max" => /\ b'.max = lastCall'.args[1]
                            /\ b'.min = (IF kept THEN b.min ELSE -1)
           /\ op \in {"of", "ofAny"} => b'.min = b.min /\ b'.max = b.max
           /\ (hasCharacterSource(b) /\ op \in QuantityOps \cup {"getLiteral"}) =>
                /\ Len(b'.literal) = n + 1
                /\ QuantityPart(b, b'.literal[n + 1]) =
                     (IF b.min >= 0 /\ b.max >= 0
                      THEN Braces(NumToStr(b.min), NumToStr(b.max))
                      ELSE IF b.min >= 0 THEN Braces(NumToStr(b.min), <<>>)
                      ELSE IF b.max >= 0 THEN Braces(<<"0">>, NumToStr(b.max))
                      ELSE Braces(<<"0">>, <<"-", "1">>))
      ]_vars

\* min(2).max(12).of("a"), min(1).ofAny(), then getLiteral
C6_Witness ==
    /\ lastCall.op = "getLiteral"
    /\ Len(b.literal) >= 1
    /\ \E m \in Quantities, n \in Quantities :
         /\ m < n
         /\ Last(b.literal) = <<"(", "?", ":", "(", "?", ":", "a", ")">>
                              \o Braces(NumToStr(m), NumToStr(n)) \o <<")">>

---------------------------------------------------------------------------
(* The committed token *)

\* some character source is set, as the flush condition is specified
SourceIsSet(r) ==
    \/ r.of # <<>>
    \/ r.ofAny
    \/ r.ofGroup > 0
    \/ r.from # <<>>
    \/ r.notFrom # <<>>
    \/ r.like # Null

CapturePrefix(r) ==
    IF ~r.capture THEN <<"?", ":">>
    ELSE IF r.captureName # Null /\ r.captureName[1] # <<>>
    THEN <<"?", "P", "<">> \o r.captureName[1] \o <<">">>
    ELSE <<>>

TokenShape(r) ==
    <<"(">> \o CapturePrefix(r) \o <<"(", "?", ":">> \o getCharacterLiteral(r) \o <<")">>
    \o getQuantityLiteral(r) \o (IF r.reluctant THEN <<"?">> ELSE <<>>) \o <<")">>

\* C7: a call that flushes (exactly, min, max, getLiteral, getRegExp, and
\* endOfInput and endOfLine before their anchor) appends, for a descriptor
\* whose character source is set, exactly the one fragment
\* "(" prefix "(?:" character-literal ")" quantity-literal suffix ")", with
\* prefix "?:" when not capturing, empty for a capturing group without a name
\* and "?P<name>" for one with a (non-empty) name, and suffix "?" iff the
\* token is reluctant; for a descriptor without a character source it appends
\* nothing, whatever the other fields are.
C7_FlushAppendsOneShapedFragment ==
    [][lastCall'.op \in {"exactly", "min", "max", "getLiteral", "getRegExp",
                         "endOfInput", "endOfLine"} =>
        \A n \in {Len(b.literal)} :
        \A anchor \in {IF lastCall'.op \in AnchorOps
                       THEN <<AnchorFragment(lastCall'.op)>> ELSE <<>>} :
            /\ Len(b'.literal) >= n
            /\ SubSeq(b'.literal, 1, n) = b.literal
            /\ SubSeq(b'.literal, n + 1, Len(b'.literal)) =
                 (IF SourceIsSet(b) THEN <<TokenShape(b)>> ELSE <<>>) \o anchor
      ]_vars

\* of("a").asGroup("n").reluctantly().getLiteral()
C7_Witness ==
    /\ lastCall.op = "getLiteral"
    /\ b.literal = << <<"(", "?", "P", "<", "n", ">", "(", "?", ":", "a", ")",
                        "{", "0", ",", "-", "1", "}", "?", ")">> >>

\* asGroup().reluctantly().min(0).getLiteral(): nothing is appended
C7_WitnessEmpty ==
    /\ lastCall.op = "getLiteral"
    /\ calls = 4
    /\ b.literal = <<>>
    /\ b.capture /\ b.reluctant /\ b.min = 0

\* the character literal of the fragment frag committed for the token pending in pre
CharacterPart(pre, frag) ==
    SubSeq(frag, Len(captureLiteral(pre)) + 5,
           Len(frag) - Len(reluctantLiteral(pre)) - Len(getQuantityLiteral(pre)) - 2)

\* the fixed precedence of the character sources
ChosenSource(r) ==
    IF r.of # <<>> THEN r.of
    ELSE IF r.ofAny THEN <<".">>
    ELSE IF r.ofGroup > 0 THEN <<"\\">> \o NumToStr(r.ofGroup)
    ELSE IF r.from # <<>> THEN <<"[">> \o r.from \o <<"]">>
    ELSE IF r.notFrom # <<>> THEN <<"[", "^">> \o r.notFrom \o <<"]">>
    ELSE r.like[1]

SourceFields == {"of", "ofAny", "ofGroup", "from", "notFrom", "like"}

\* C8: each character-source setter writes its own field only and is never
\* rejected, so the fields set do not depend on the order of the calls; and
\* the fragment committed for the token uses the one source that comes first
\* in the order literal text, any character, group backreference, inclusive
\* set, exclusive set, embedded text.
C8_SourcePrecedence ==
    [][/\ lastCall'.op \in SourceFields =>
            /\ ~threw'
            /\ \A f \in SourceFields \ {lastCall'.op} : b'[f] = b[f]
            /\ b'.literal = b.literal
       /\ (lastCall'.op = "getLiteral" /\ SourceIsSet(b)) =>
            \A n \in {Len(b.literal)} :
                /\ Len(b'.literal) = n + 1
                /\ CharacterPart(b, b'.literal[n + 1]) = ChosenSource(b)
      ]_vars

\* from(["a", "b"]) and like(SubGroup) on one token, in either order, then
\* getLiteral: the counter shows that like was called, the single fragment
\* that its text was pending with the set, and the set is what was committed
C8_Witness ==
    /\ lastCall.op = "getLiteral"
    /\ b.groupsUsed = 1
    /\ b.literal = << <<"(", "?", ":", "(", "?", ":", "[", "a", "b", "]", ")",
                        "{", "0", ",", "-", "1", "}", ")">> >>

---------------------------------------------------------------------------
(* anyOf *)

RECURSIVE OrFindFrom(_, _, _)
OrFindFrom(r, list, i) ==
    IF i > Len(list) THEN r ELSE OrFindFrom(orFind(r, list[i]), list, i + 1)

\* eitherFind(list[1]), then orFind(list[2]), ..., orFind(list[n]) as separate calls
SeparateCalls(r, list) == OrFindFrom(eitherFind(r, list[1]), list, 2)

RECURSIVE Branches(_, _, _)
Branches(list, i, j) ==
    IF i > Len(list) THEN <<>>
    ELSE (IF i > 1 THEN <<"|">> ELSE <<>>)
         \o <<"(", "?", ":">> \o Rendered(list[i], j) \o <<")">>
         \o Branches(list, i + 1, j + asBuilder(list[i]).groupsUsed)

\* (?:(?:A1)|(?:A2)|...|(?:An)), the first alternative rendered at counter j
FlatGroup(list, j) == <<"(", "?", ":">> \o Branches(list, 1, j) \o <<")">>

\* C10: anyOf(L) leaves the builder as eitherFind(L[1]) followed by
\* orFind(L[2]), ..., orFind(L[n]) leave it, and raises nothing; with two or
\* more alternatives the text added after the flush is the one flat group
\* (?:(?:A1)|...|(?:An)) and no alternative stays recorded; with one, that
\* alternative is recorded; with none, the builder is unchanged.
C10_AnyOfIsEitherThenOrs ==
    [][lastCall'.op = "anyOf" =>
        \A list \in {lastCall'.args[1]} :
            /\ ~threw'
            /\ Len(list) = 0 => b' = b
            /\ Len(list) >= 1 => b' = SeparateCalls(b, list)
            /\ Len(list) = 1 =>
                 /\ b'.literal = FlushedLiteral(b)
                 /\ b'.either = Some(Rendered(list[1], b.groupsUsed))
            /\ Len(list) >= 2 =>
                 /\ join(b'.literal) =
                      join(FlushedLiteral(b)) \o FlatGroup(list, b.groupsUsed)
                 /\ b'.either = Null
      ]_vars

\* then("b").anyOf(["a", SubGroup, SubGroup])
C10_Witness ==
    /\ lastCall.op = "anyOf"
    /\ lastCall.args[1] = <<StringArg(StrA), BuilderArg(SubGroup), BuilderArg(SubGroup)>>
    /\ b.groupsUsed = 2
    /\ Len(b.literal) = 3
    /\ b.literal[1] = fragment(then(New, StrB))
    /\ BackRefs(b.literal[2]) = <<1>>
    /\ BackRefs(b.literal[3]) = <<2>>

---------------------------------------------------------------------------
(* Negation *)

\* nothing is pending: every field that clear() resets is at its default
NothingPending(r) == r = clear(r)

\* the pending token is exactly "zero or more of any character"
ZeroOrMoreAnyPending(r) == r = [clear(r) EXCEPT !.min = 0, !.ofAny = TRUE]

\* (?:(?:text){1,1}), the token of one literal text
OneOf(text) == <<"(", "?", ":", "(", "?", ":">> \o text \o <<")", "{", "1", ",", "1", "}", ")">>

NegativeLookahead(text) == <<"(", "?", "!">> \o text \o <<")">>

\* (?:(?:.){0,})
ZeroOrMoreAnyFragment ==
    <<"(", "?", ":", "(", "?", ":", ".", ")", "{", "0", ",", "}", ")">>

\* (?:(?:[^c]){1,}) for the escaped member text c
OneOrMoreNotFrom(c) ==
    <<"(", "?", ":", "(", "?", ":", "[", "^">> \o c \o <<"]", ")", "{", "1", ",", "}", ")">>

\* C11: anythingBut(s) with nothing pending.  For a single character s it
\* commits nothing and leaves pending the exclusive set of (escaped) s with
\* lower bound 1, committed as (?:(?:[^s]){1,}); for s of two or more
\* characters it appends the negative lookahead (?!(?:(?:s){1,1})) of the
\* escaped literal s and leaves pending zero or more of any character,
\* committed as (?:(?:.){0,}).
C11_AnythingButByLength ==
    [][(lastCall'.op = "anythingBut" /\ NothingPending(b)) =>
        \A s \in {lastCall'.args[1]} :
            /\ Len(s) = 1 =>
                 /\ b' = [b EXCEPT !.min = 1, !.notFrom = sanitize(s)]
                 /\ flushState(b').literal =
                      Append(b.literal, OneOrMoreNotFrom(sanitize(s)))
            /\ Len(s) >= 2 =>
                 /\ b'.literal = Append(b.literal, NegativeLookahead(OneOf(sanitize(s))))
                 /\ ZeroOrMoreAnyPending(b')
                 /\ flushState(b').literal = Append(b'.literal, ZeroOrMoreAnyFragment)
      ]_vars

\* anythingBut("xy") as the first call on a new builder
C11_Witness ==
    /\ calls = 1
    /\ lastCall = [op |-> "anythingBut", args |-> <<StrXY>>]
    /\ b.literal = << NegativeLookahead(OneOf(StrXY)) >>
    /\ ZeroOrMoreAnyPending(b)

\* anythingBut(".") as the first call on a new builder: the exclusive set
\* of the escaped character
C11_WitnessSingle ==
    /\ calls = 1
    /\ lastCall = [op |-> "anythingBut", args |-> <<StrDot>>]
    /\ b.literal = <<>>
    /\ b.min = 1
    /\ b.notFrom = <<"\\", ".">>

\* C12: in a chain neither(x0) (or anythingBut of a multi-character x0),
\* nor(x1), ..., nor(xk), getLiteral started with nothing or a whole token
\* pending, neither commits that token, appends (?!X0) and leaves nothing
\* pending; each nor, called with nothing
\* pending or with the zero-or-more any-character token pending, appends
\* (?!Xi) alone (the pending any-character token is discarded, not
\* committed) and leaves that token pending; and getLiteral commits it as the
\* one fragment (?:(?:.){0,}) that ends the text.
C12_NorChain ==
    [][/\ (lastCall'.op = "neither" /\ (NothingPending(b) \/ hasCharacterSource(b))) =>
            /\ b'.literal =
                 Append(FlushedLiteral(b),
                        NegativeLookahead(Rendered(lastCall'.args[1], b.groupsUsed)))
            /\ NothingPending(b')
       /\ (lastCall'.op = "nor" /\ (NothingPending(b) \/ ZeroOrMoreAnyPending(b))) =>
            /\ b'.literal =
                 Append(b.literal,
                        NegativeLookahead(Rendered(lastCall'.args[1], b.groupsUsed)))
            /\ ZeroOrMoreAnyPending(b')
       /\ (lastCall'.op = "getLiteral" /\ ZeroOrMoreAnyPending(b)) =>
            /\ b'.literal = Append(b.literal, ZeroOrMoreAnyFragment)
            /\ NothingPending(b')
      ]_vars

\* neither("a").nor("xy").nor(SubGroup).getLiteral(): three lookaheads in
\* call order and one any-character fragment
C12_Witness ==
    /\ calls = 4
    /\ lastCall.op = "getLiteral"
    /\ b.literal = << NegativeLookahead(OneOf(StrA)),
                      NegativeLookahead(OneOf(StrXY)),
                      NegativeLookahead(getLiteral(SubGroup)),
                      ZeroOrMoreAnyFragment >>

---------------------------------------------------------------------------
(* Escaping *)

\* text read as a sequence of escape pairs (a backslash and the character it
\* escapes) and single characters: every pair escapes a metacharacter and
\* no single character is one
RECURSIVE WellEscapedFrom(_, _)
WellEscapedFrom(text, i) ==
    IF i > Len(text) THEN TRUE
    ELSE IF text[i] = "\\"
    THEN i < Len(text) /\ text[i + 1] \in MetaChars /\ WellEscapedFrom(text, i + 2)
    ELSE text[i] \notin MetaChars /\ WellEscapedFrom(text, i + 1)

\* text with the backslash of every escape pair removed
RECURSIVE UnescapedFrom(_, _)
UnescapedFrom(text, i) ==
    IF i > Len(text) THEN <<>>
    ELSE IF text[i] = "\\" /\ i < Len(text)
    THEN <<text[i + 1]>> \o UnescapedFrom(text, i + 2)
    ELSE <<text[i]>> \o UnescapedFrom(text, i + 1)

MetaCount(s) == Cardinality({i \in 1..Len(s) : s[i] \in MetaChars})

\* stored is s with exactly one backslash inserted before each metacharacter
EscapedFormOf(stored, s) ==
    /\ WellEscapedFrom(stored, 1)
    /\ UnescapedFrom(stored, 1) = s
    /\ Len(stored) = Len(s) + MetaCount(s)

\* C13: the text stored by of(s) is s with exactly one backslash inserted
\* before each occurrence of a metacharacter . * + ? ^ $ { } ( ) | [ ] \ and
\* every other character unchanged in order, so that removing the inserted
\* backslashes gives s back; from(list) and notFrom(list) store the same
\* escaping of the concatenation of the list.
C13_EscapingInsertsOneBackslash ==
    [][/\ lastCall'.op = "of" => EscapedFormOf(b'.of, lastCall'.args[1])
       /\ lastCall'.op = "from" => EscapedFormOf(b'.from, join(lastCall'.args[1]))
       /\ lastCall'.op = "notFrom" => EscapedFormOf(b'.notFrom, join(lastCall'.args[1]))
      ]_vars

\* of("(\\"): a parenthesis and a backslash, each escaped
C13_Witness ==
    /\ lastCall = [op |-> "of", args |-> << <<"(", "\\">> >>]
    /\ b.of = <<"\\", "(", "\\", "\\">>

\* notFrom(["^", "-", "\\"]): the concatenation, escaped
C13_WitnessList ==
    /\ lastCall.op = "notFrom"
    /\ b.notFrom = <<"\\", "^", "-", "\\", "\\">>

---------------------------------------------------------------------------
(* Flags *)

FlagChars == {"i", "m", "g"}

Occurrences(s, c) == Cardinality({i \in 1..Len(s) : s[i] = c})

\* the flag a call adds, if it adds one
FlagOf(op) ==
    IF op = "ignoreCase" THEN <<"i">>
    ELSE IF op = "globalMatch" THEN <<"g">>
    ELSE IF op \in {"multiLine", "startOfLine", "endOfLine"} THEN <<"m">>
    ELSE <<>>

\* C14: after every call the flag accumulator holds only the characters i,
\* m, g and each at most once; a call that adds a flag already present leaves
\* the accumulator unchanged, one that adds an absent flag appends it, and no
\* call removes a flag (the accumulator before is a prefix of the one after).
C14_FlagsAtMostOnce ==
    [][\A added \in {FlagOf(lastCall'.op)} :
        /\ \A i \in 1..Len(b'.flags) : b'.flags[i] \in FlagChars
        /\ \A c \in FlagChars : Occurrences(b'.flags, c) <= 1
        /\ Len(b'.flags) >= Len(b.flags)
        /\ SubSeq(b'.flags, 1, Len(b.flags)) = b.flags
        /\ b'.flags = (IF added = <<>> \/ contains(b.flags, added[1])
                       THEN b.flags ELSE b.flags \o added)
      ]_vars

\* ignoreCase().ignoreCase(): the second call changes nothing
C14_Witness ==
    /\ calls = 2
    /\ lastCall.op = "ignoreCase"
    /\ b = [New EXCEPT !.flags = <<"i">>]

\* five calls that add i, m and g, two of them a flag already present
C14_WitnessAll ==
    /\ calls = 5
    /\ b.literal = <<>>
    /\ b.of = <<>>
    /\ Len(b.flags) = 3

---------------------------------------------------------------------------
(* The usage example *)

\* startOfInput().exactly(3).digits().then("-").min(2).max(5).letters().endOfInput()
ChainCalls ==
    << [op |-> "startOfInput", args |-> <<>>],
       [op |-> "exactly", args |-> <<3>>],
       [op |-> "digits", args |-> <<>>],
       [op |-> "then", args |-> <<StrDash>>],
       [op |-> "min", args |-> <<2>>],
       [op |-> "max", args |-> <<5>>],
       [op |-> "letters", args |-> <<>>],
       [op |-> "endOfInput", args |-> <<>>] >>

StartAnchor == <<"(", "?", ":", "^", ")">>
ThreeDigits == <<"(", "?", ":", "(", "?", ":", "(", "?", ":", "\\", "d", ")", ")", "{", "3", ",", "3", "}", ")">>
OneDash == <<"(", "?", ":", "(", "?", ":", "-", ")", "{", "1", ",", "1", "}", ")">>
TwoToFiveLetters == <<"(", "?", ":", "(", "?", ":", "[", "A", "-", "Z", "a", "-", "z", "]", ")", "{", "2", ",", "5", "}", ")">>
EndAnchor == <<"(", "?", ":", "$", ")">>

\* the builder after each call of the chain
ChainStates ==
    << [New EXCEPT !.literal = <<StartAnchor>>],
       [New EXCEPT !.literal = <<StartAnchor>>, !.min = 3, !.max = 3],
       [New EXCEPT !.literal = <<StartAnchor>>, !.min = 3, !.max = 3,
                   !.like = Some(<<"(", "?", ":", "\\", "d", ")">>)],
       [New EXCEPT !.literal = <<StartAnchor, ThreeDigits>>, !.min = 1, !.max = 1,
                   !.of = StrDash],
       [New EXCEPT !.literal = <<StartAnchor, ThreeDigits, OneDash>>, !.min = 2],
       [New EXCEPT !.literal = <<StartAnchor, ThreeDigits, OneDash>>, !.min = 2, !.max = 5],
       [New EXCEPT !.literal = <<StartAnchor, ThreeDigits, OneDash>>, !.min = 2, !.max = 5,
                   !.from = <<"A", "-", "Z", "a", "-", "z">>],
       [New EXCEPT !.literal = <<StartAnchor, ThreeDigits, OneDash, TwoToFiveLetters,
                                 EndAnchor>>] >>

\* The pattern language of the emitted text, for the fragments of such a
\* chain: (?:^), (?:$) and (?:(?:C){m,n}) with C one of (?:\d), [A-Za-z] and a
\* single plain character.
LetterChars ==
    {"a", "b", "c", "d", "e", "f", "g", "h", "i", "j", "k", "l", "m",
     "n", "o", "p", "q", "r", "s", "t", "u", "v", "w", "x", "y", "z",
     "A", "B", "C", "D", "E", "F", "G", "H", "I", "J", "K", "L", "M",
     "N", "O", "P", "Q", "R", "S", "T", "U", "V", "W", "X", "Y", "Z"}

\* position of the "{" that opens the quantifier of a token fragment
BraceAt(frag) == CHOOSE i \in 1..Len(frag) :
    frag[i] = "{" /\ \A j \in (i + 1)..Len(frag) : frag[j] # "{"

CommaAt(frag) == CHOOSE i \in BraceAt(frag)..Len(frag) :
    frag[i] = "," /\ \A j \in BraceAt(frag)..(i - 1) : frag[j] # ","

ClassOf(frag) == SubSeq(frag, 7, BraceAt(frag) - 2)

LowerOf(frag) == parseInt(SubSeq(frag, BraceAt(frag) + 1, CommaAt(frag) - 1))

UpperOf(frag) == parseInt(SubSeq(frag, CommaAt(frag) + 1, Len(frag) - 2))

ClassMatches(class, c) ==
    IF class = <<"(", "?", ":", "\\", "d", ")">> THEN IsDigit(c)
    ELSE IF class = <<"[", "A", "-", "Z", "a", "-", "z", "]">> THEN c \in LetterChars
    ELSE Len(class) = 1 /\ class[1] \notin MetaChars /\ c = class[1]

\* the fragments from the k-th on match input from position pos on
RECURSIVE MatchesFrom(_, _, _, _)
MatchesFrom(frags, k, input, pos) ==
    IF k > Len(frags) THEN TRUE
    ELSE IF frags[k] = StartAnchor THEN pos = 1 /\ MatchesFrom(frags, k + 1, input, pos)
    ELSE IF frags[k] = EndAnchor
    THEN pos = Len(input) + 1 /\ MatchesFrom(frags, k + 1, input, pos)
    ELSE \E count \in LowerOf(frags[k])..UpperOf(frags[k]) :
            /\ pos + count - 1 <= Len(input)
            /\ \A i \in pos..(pos + count - 1) : ClassMatches(ClassOf(frags[k]), input[i])
            /\ MatchesFrom(frags, k + 1, input, pos + count)

\* RegExp.prototype.test: a match may start anywhere
Accepts(frags, input) == \E pos \in 1..(Len(input) + 1) : MatchesFrom(frags, 1, input, pos)

\* C15: each call of the chain, made on the builder the calls before it
\* left, leaves the builder of ChainStates; the last one leaves exactly the
\* five fragments (?:^), (?:(?:(?:\d)){3,3}), (?:(?:-){1,1}),
\* (?:(?:[A-Za-z]){2,5}), (?:$) and nothing pending, and that pattern accepts
\* "123-abcde" and rejects "12-abcde" and "123-ab1de".
C15_UsageExample ==
    [][\A k \in 1..8 :
        (/\ calls = k - 1
         /\ b = (IF k = 1 THEN New ELSE ChainStates[k - 1])
         /\ lastCall' = ChainCalls[k]) =>
            /\ b' = ChainStates[k]
            /\ ~threw'
            /\ k = 8 =>
                 /\ join(b'.literal) = <<"(", "?", ":", "^", ")", "(", "?", ":", "(", "?", ":", "(", "?", ":", "\\", "d", ")", ")", "{", "3", ",", "3", "}", ")", "(", "?", ":", "(", "?", ":", "-", ")", "{", "1", ",", "1", "}", ")", "(", "?", ":", "(", "?", ":", "[", "A", "-", "Z", "a", "-", "z", "]", ")", "{", "2", ",", "5", "}", ")", "(", "?", ":", "$", ")">>
                 /\ Accepts(b'.literal, <<"1", "2", "3", "-", "a", "b", "c", "d", "e">>)
                 /\ ~Accepts(b'.literal, <<"1", "2", "-", "a", "b", "c", "d", "e">>)
                 /\ ~Accepts(b'.literal, <<"1", "2", "3", "-", "a", "b", "1", "d", "e">>)
      ]_vars

\* the state after the eighth call of the chain
C15_Witness ==
    /\ calls = 8
    /\ lastCall = ChainCalls[8]
    /\ b.literal = <<StartAnchor, ThreeDigits, OneDash, TwoToFiveLetters, EndAnchor>>

---------------------------------------------------------------------------
(* The descriptor after a flush *)

\* every field of the pending descriptor is at its default
DescriptorAtDefaults(r) ==
    /\ r.min = -1 /\ r.max = -1
    /\ r.of = <<>> /\ ~r.ofAny /\ r.ofGroup = -1
    /\ r.from = <<>> /\ r.notFrom = <<>> /\ r.like = Null
    /\ ~r.reluctant /\ ~r.capture /\ r.captureName = Null

\* C16: right after getLiteral(), getRegExp() or endOfInput() has returned,
\* whatever was called before, every field of the pending descriptor is at
\* its default: no bound, no character source, not reluctant, not capturing,
\* no capture name.
C16_FlushLeavesDescriptorEmpty ==
    (lastCall.op \in {"getLiteral", "getRegExp", "endOfInput"} /\ ~threw) =>
        DescriptorAtDefaults(b)

---------------------------------------------------------------------------
(* The group counter *)

\* the number of capturing groups, plain or named, that open in a pattern
\* text: an unescaped "(" that is not followed by "?", or is followed by "?P<"
RECURSIVE CapturingGroupsFrom(_, _)
CapturingGroupsFrom(text, i) ==
    IF i > Len(text) THEN 0
    ELSE IF text[i] = "\\" THEN CapturingGroupsFrom(text, i + 2)
    ELSE IF text[i] # "(" THEN CapturingGroupsFrom(text, i + 1)
    ELSE (IF \/ i = Len(text)
             \/ text[i + 1] # "?"
             \/ (i + 3 <= Len(text) /\ text[i + 2] = "P" /\ text[i + 3] = "<")
          THEN 1 ELSE 0) + CapturingGroupsFrom(text, i + 1)

CapturingGroups(text) == CapturingGroupsFrom(text, 1)

\* C17: after getLiteral(), whatever was called before, the group counter
\* equals the number of capturing groups that open in the returned literal.
C17_CounterEqualsCapturingGroups ==
    lastCall.op = "getLiteral" => b.groupsUsed = CapturingGroups(join(b.literal))

\* the number of capturing groups that open before the character literal of
\* r's pending token once that token is committed
GroupsOpeningBefore(r) ==
    CapturingGroups(join(r.literal)) + (IF r.capture THEN 1 ELSE 0)

\* C18: when like, append or optional embeds a sub-builder in a token of a
\* parent whose counter is exact, every backreference \i of the sub-builder's
\* text is embedded as the ordinal that the sub-builder's i-th group gets in
\* the parent's literal (the groups that open before the embedded text, plus
\* i); and asGroup called on that token after the embedding leaves that
\* ordinal unchanged.
C18_BackReferenceKeepsTarget ==
    [][/\ (/\ lastCall'.op \in {"like", "append", "optional"}
           /\ b.like = Null
           /\ b.groupsUsed = GroupsOpeningBefore(b)) =>
            BackRefs(b'.like[1]) =
                Raised(BackRefs(getLiteral(lastCall'.args[1])), GroupsOpeningBefore(b'))
       /\ (lastCall'.op = "asGroup" /\ b.like # Null) =>
            GroupsOpeningBefore(b') = GroupsOpeningBefore(b)
      ]_vars

\* a pattern text without its backreference tokens
RECURSIVE WithoutBackRefsFrom(_, _)
WithoutBackRefsFrom(text, i) ==
    IF i > Len(text) THEN <<>>
    ELSE IF text[i] # "\\" THEN <<text[i]>> \o WithoutBackRefsFrom(text, i + 1)
    ELSE LET n == digitRun(text, i + 1) IN
         IF n > 0 THEN WithoutBackRefsFrom(text, i + 1 + n)
         ELSE SubSeq(text, i, i + 1) \o WithoutBackRefsFrom(text, i + 2)

\* C19: an embedding call on a parent whose group counter is greater than 0
\* changes nothing of the sub-builder's text but its backreference tokens:
\* the embedded text and the sub-builder's text are the same once the
\* backreference tokens are taken out of both, so escaped literal text, an
\* escaped backslash followed by digits included, is embedded as it was.
C19_RenumberingKeepsEscapedText ==
    [][(lastCall'.op \in EmbedOps /\ ~threw' /\ b.groupsUsed > 0) =>
        \A T \in {getLiteral(EmbeddedBuilder(lastCall'))} :
        \A E \in {EmbeddedText(lastCall'.op, b, b')} :
            WithoutBackRefsFrom(E, 1) = WithoutBackRefsFrom(T, 1)
      ]_vars

---------------------------------------------------------------------------
(* Parentheses *)

\* the character at position i of text is escaped: an odd number of
\* backslashes stands right before it
EscapedAt(text, i) ==
    Cardinality({k \in 1..(i - 1) : \A j \in (i - k)..(i - 1) : text[j] = "\\"}) % 2 = 1

UnescapedAt(text, c) == {i \in 1..Len(text) : text[i] = c /\ ~EscapedAt(text, i)}

\* every unescaped ")" of text closes a group that an unescaped "(" before
\* it opened, and no group stays open
Balanced(text) ==
    \A opens \in {UnescapedAt(text, "(")} :
    \A closes \in {UnescapedAt(text, ")")} :
        /\ Cardinality(opens) = Cardinality(closes)
        /\ \A p \in closes :
             Cardinality({c \in closes : c <= p}) <= Cardinality({o \in opens : o < p})

EndsWithClosingParenthesis(text) ==
    /\ Len(text) >= 1
    /\ text[Len(text)] = ")"
    /\ ~EscapedAt(text, Len(text))

\* the final ")" of frag closes the group that the first character of frag
\* opens: frag is balanced and no group-closing ")" before the last one
\* brings the depth to zero
ClosesOwnOutermostGroup(frag) ==
    /\ EndsWithClosingParenthesis(frag)
    /\ frag[1] = "("
    /\ Balanced(frag)
    /\ \A opens \in {UnescapedAt(frag, "(")} :
       \A closes \in {UnescapedAt(frag, ")")} :
       \A p \in closes \ {Len(frag)} :
            Cardinality({c \in closes : c <= p}) < Cardinality({o \in opens : o < p})

\* the position of the "(" that the final ")" of a balanced text closes:
\* the last unescaped "(" from which on the text is balanced
MatchOfFinalClose(text) ==
    CHOOSE o \in UnescapedAt(text, "(") :
        /\ Balanced(SubSeq(text, o, Len(text)))
        /\ \A later \in UnescapedAt(text, "(") :
             later > o => ~Balanced(SubSeq(text, later, Len(text)))

\* the positions of the concatenated text at which a committed fragment starts
FragmentStarts(literal) ==
    {1 + Len(join(SubSeq(literal, 1, k - 1))) : k \in 1..Len(literal)}

\* C20 as stated: after every call that completes, the concatenation of the
\* committed fragments has balanced unescaped parentheses; and the character
\* that orFind removes from the last committed fragment, when no first
\* alternative is recorded, is the closing parenthesis of that fragment's own
\* outermost group.
C20_OrFindRemovesOwnGroupClose ==
    [][~threw' =>
        \A text \in {join(b'.literal)} :
            /\ Balanced(text)
            /\ (lastCall'.op = "orFind" /\ b.either = Null) =>
                 \A last \in {Last(b.literal)} : ClosesOwnOutermostGroup(last)
      ]_vars

\* C20 amended: after every call that completes, the concatenation of the
\* committed fragments has balanced unescaped parentheses; and the character
\* that orFind removes from the last committed fragment, when no first
\* alternative is recorded, is an unescaped closing parenthesis that closes a
\* group opened by the first character of a committed fragment: of the last
\* fragment when that fragment is whole, of an earlier one when the last
\* fragment is the branch |(?:B)) that an earlier orFind appended.  The text
\* after the call is the text before without that character, followed by
\* |(?:B)).
C20_ParenthesesBalanced ==
    [][~threw' =>
        \A text \in {join(b'.literal)} :
            /\ Balanced(text)
            /\ (lastCall'.op = "orFind" /\ b.either = Null) =>
                 \A last \in {Last(b.literal)} :
                 \A before \in {join(b.literal)} :
                 \A open \in {MatchOfFinalClose(before)} :
                     /\ EndsWithClosingParenthesis(last)
                     /\ open \in FragmentStarts(b.literal)
                     /\ (last[1] = "|") =
                          (open < 1 + Len(before) - Len(last))
                     /\ (last[1] # "|") => ClosesOwnOutermostGroup(last)
                     /\ text = dropLast(before)
                               \o OrBranch(Rendered(lastCall'.args[1], b.groupsUsed))
      ]_vars

\* startOfInput().orFind(")").orFind(SubGroup): two branches grown onto the
\* anchor, the first an escaped parenthesis
C20_Witness ==
    /\ calls = 3
    /\ lastCall = [op |-> "orFind", args |-> <<BuilderArg(SubGroup)>>]
    /\ ~threw
    /\ Len(b.literal) = 3
    /\ b.literal[1] = <<"(", "?", ":", "^">>
    /\ b.literal[2] = <<"|", "(", "?", ":">> \o OneOf(<<"\\", ")">>) \o <<")">>
    /\ Balanced(join(b.literal))

====
